---------------------------- MODULE Spec2Model ----------------------------
(***************************************************************************)
(* Model of the service monitor (src/app.js): the health probe, the        *)
(* check-all cycle with its history persistence and transition detection,  *)
(* the notification dispatch, the credential vault and the administrative  *)
(* operations on the service list.                                         *)
(*                                                                         *)
(* Node runs the program on one thread: code between two awaits is one     *)
(* atomic step, and at every await another callback may run.  Each action  *)
(* below is the code between two awaits of a handler.  A promise rejection *)
(* that nobody handles terminates the process (the image runs Node 18).    *)
(* Time is counted in days.                                                *)
(***************************************************************************)
EXTENDS Integers, Sequences, FiniteSets, TLC

(***************************************************************************)
(* Bounds of the model                                                     *)
(***************************************************************************)
MaxCycles == 3          \* timer and check-now cycles of a behaviour of Spec
MaxTicks == 3           \* steps of the clock in a behaviour of SpecRetention
ClockStep == 45         \* days that pass in one step of the clock
RetentionCycles == 1    \* timer and check-now cycles of SpecRetention
MaxAdminOps == 2        \* add and remove requests of a behaviour of SpecAdmin
AdminCycles == 1        \* timer and check-now cycles of SpecAdmin
MaxConfigUpdates == 2   \* configuration updates of a behaviour of SpecNotify
NotifyCycles == 1       \* timer and check-now cycles of SpecNotify
PairCycles == 1         \* timer and check-now cycles of a behaviour of SpecPair
MaxRemovals == 2        \* remove requests of a behaviour of SpecRemove
RestartCycles == 1      \* timer and check-now cycles of a behaviour of SpecRestart
ListOps == 3            \* add and remove requests of a behaviour of SpecList
LiveCycles == 2         \* timer and check-now cycles of a behaviour of SpecLive
MaxText == 3            \* longest text given to encrypt and decrypt
MaxHistory == 5         \* longest history given to calculateUptime

(***************************************************************************)
(* Program constants                                                       *)
(***************************************************************************)
RetentionDays == 90
DefaultExpectedStatus == 200
DefaultTimeout == 5000

Null == [kind |-> "null"]

(***************************************************************************)
(* checkService (src/app.js 723-770)                                       *)
(***************************************************************************)
\* A service spec as stored in services.json; 0 stands for an unset number.
ServiceSpec(name, timeout, expectedStatus) ==
    [name |-> name, timeout |-> timeout, expectedStatus |-> expectedStatus]

\* service.expectedStatus || 200
ExpectedStatus(service) ==
    IF service.expectedStatus = 0 THEN DefaultExpectedStatus
    ELSE service.expectedStatus

\* service.timeout || 5000
EffectiveTimeout(service) ==
    IF service.timeout = 0 THEN DefaultTimeout ELSE service.timeout

\* What the endpoint does with the GET: it answers with a status code after
\* some milliseconds, or the connection fails before any answer.
Answer(code, delay) == [kind |-> "answer", code |-> code, delay |-> delay]
Failure(message) == [kind |-> "failure", message |-> message]

\* axios is called without a validateStatus option: it resolves only for a
\* 2xx status and rejects every other one.
ValidateStatus(code) == code >= 200 /\ code < 300

\* The outcome of `await axios.get(url, {timeout})`: a response, or a thrown
\* error with its message and, when the server answered, its response.
AxiosGet(service, endpoint) ==
    IF endpoint.kind = "failure"
    THEN [thrown |-> TRUE, message |-> [kind |-> "transport", text |-> endpoint.message],
          hasResponse |-> FALSE, status |-> 0]
    ELSE IF endpoint.delay > EffectiveTimeout(service)
    THEN [thrown |-> TRUE, message |-> [kind |-> "timeout", ms |-> EffectiveTimeout(service)],
          hasResponse |-> FALSE, status |-> 0]
    ELSE IF ValidateStatus(endpoint.code)
    THEN [thrown |-> FALSE, message |-> Null, hasResponse |-> TRUE, status |-> endpoint.code]
    ELSE [thrown |-> TRUE, message |-> [kind |-> "badStatus", code |-> endpoint.code],
          hasResponse |-> TRUE, status |-> endpoint.code]

\* `Expected status ${expected}, got ${actual}`
ExpectedStatusMessage(expected, actual) ==
    [kind |-> "expected", expected |-> expected, actual |-> actual]

\* Mutant: error.response.status without the fallback to null
ErrorStatusCodeUnguarded(r) == [kind |-> "code", code |-> r.status]

\* error.response?.status || null
ErrorStatusCode(r) ==
    IF r.hasResponse /\ r.status # 0 THEN [kind |-> "code", code |-> r.status] ELSE Null

CheckService(service, endpoint, t) ==
    LET r == AxiosGet(service, endpoint)
        isHealthy == r.status = ExpectedStatus(service)
    IN  IF ~r.thrown
        THEN [name |-> service.name,
              status |-> IF isHealthy THEN "up" ELSE "down",
              statusCode |-> [kind |-> "code", code |-> r.status],
              lastChecked |-> t,
              error |-> IF isHealthy THEN Null
                        ELSE ExpectedStatusMessage(ExpectedStatus(service), r.status)]
        ELSE [name |-> service.name,
              status |-> "down",
              statusCode |-> ErrorStatusCode(r),
              lastChecked |-> t,
              error |-> r.message]


(***************************************************************************)
(* Credential vault (src/app.js 17-19, 95-115).  A text is a sequence of   *)
(* characters; the cipher shifts every character by key + iv inside the    *)
(* hex alphabet and appends one padding digit, which decrypt verifies.     *)
(***************************************************************************)
PlainAlphabet == <<"a", "b", ":">>
HexDigits == <<"0", "1", "2", "3">>
Keys == {0, 1, 2}
IVs == {0, 1}

IndexOf(alphabet, ch) == CHOOSE i \in 1..Len(alphabet) : alphabet[i] = ch
IsHex(ch) == \E i \in 1..Len(HexDigits) : HexDigits[i] = ch
\* Mutant: a cipher whose output does not depend on the key
ShiftByNothing(v, by) == v % Len(HexDigits)

Shift(v, by) == (v + by) % Len(HexDigits)
HexOf(v) == HexDigits[v + 1]
ValueOf(ch) == IndexOf(HexDigits, ch) - 1
Includes(text, ch) == \E i \in 1..Len(text) : text[i] = ch
FirstIndexOf(text, ch) == CHOOSE i \in 1..Len(text) :
                              text[i] = ch /\ \A j \in 1..(i - 1) : text[j] # ch

\* Mutant: a cipher that does not mix the iv into the key stream
CipherHexWithoutIv(key, iv, text) ==
    [i \in 1..Len(text) |-> HexOf(Shift(IndexOf(PlainAlphabet, text[i]), key))]
        \o <<HexOf(Shift(0, key))>>

\* cipher.update(text) + cipher.final(): the shifted characters and the padding
CipherHex(key, iv, text) ==
    [i \in 1..Len(text) |-> HexOf(Shift(IndexOf(PlainAlphabet, text[i]), key + iv))]
        \o <<HexOf(Shift(0, key + iv))>>

\* Mutant: encrypt without the `if (!text) return text` of its first line
EncryptEmptyToo(key, iv, text) ==
    <<HexOf(iv)>> \o <<":">> \o CipherHex(key, iv, text)

\* encrypt(text) with the iv that crypto.randomBytes drew
encrypt(key, iv, text) ==
    IF text = <<>> THEN text
    ELSE <<HexOf(iv)>> \o <<":">> \o CipherHex(key, iv, text)

\* One deciphered character; a value outside the alphabet decodes to garbage.
PlainOf(v) == IF v \in 1..Len(PlainAlphabet) THEN PlainAlphabet[v] ELSE "?"

\* decrypt(text): the text, or the exception createDecipheriv/final throw
\* (a bad iv, a non-hex ciphertext, a padding that does not verify).
decrypt(key, text) ==
    IF text = <<>> \/ ~Includes(text, ":") THEN [thrown |-> FALSE, text |-> text]
    ELSE LET at == FirstIndexOf(text, ":")
             ivPart == SubSeq(text, 1, at - 1)
             encrypted == SubSeq(text, at + 1, Len(text))
         IN  IF Len(ivPart) # 1 \/ ~IsHex(ivPart[1]) \/ ValueOf(ivPart[1]) \notin IVs
             THEN [thrown |-> TRUE, text |-> <<>>]
             ELSE IF encrypted = <<>> \/ \E i \in 1..Len(encrypted) : ~IsHex(encrypted[i])
             THEN [thrown |-> TRUE, text |-> <<>>]
             ELSE LET back == Len(HexDigits) - Shift(0, key + ValueOf(ivPart[1]))
                      pad == Shift(ValueOf(encrypted[Len(encrypted)]), back)
                  IN  IF pad % 2 # 0
                      THEN [thrown |-> TRUE, text |-> <<>>]
                      ELSE [thrown |-> FALSE,
                            text |-> [i \in 1..(Len(encrypted) - 1) |->
                                        PlainOf(Shift(ValueOf(encrypted[i]), back))]]

(***************************************************************************)
(* Notification configuration (src/app.js 135-311)                         *)
(***************************************************************************)
Notifications(eOn, host, user, pass, tOn, tUrl, sOn, sid, token, iOn, iUrl) ==
    [email |-> [enabled |-> eOn,
                smtp |-> [host |-> host, auth |-> [user |-> user, pass |-> pass]]],
     teams |-> [enabled |-> tOn, webhookUrl |-> tUrl],
     sms |-> [enabled |-> sOn, accountSid |-> sid, authToken |-> token],
     iphone |-> [enabled |-> iOn, webhookUrl |-> iUrl]]

\* The default configuration loadNotifications returns from its catch block
DefaultNotifications ==
    Notifications(FALSE, "", "", <<>>, FALSE, "", FALSE, <<>>, <<>>, FALSE, "")

NoNotificationsFile == [exists |-> FALSE, data |-> DefaultNotifications]

\* Mutant: the configuration is written as it was submitted
SaveNotificationsPlain(n, key, ivs) == [exists |-> TRUE, data |-> n]

\* saveNotifications: the three secrets of a copy of the caller's object are
\* encrypted when non-empty, and the copy is written.
saveNotifications(n, key, ivs) ==
    [exists |-> TRUE,
     data |-> [n EXCEPT !.email.smtp.auth.pass = encrypt(key, ivs[1], @),
                        !.sms.accountSid = encrypt(key, ivs[2], @),
                        !.sms.authToken = encrypt(key, ivs[3], @)]]

\* pass ? '***' : ''
Masked(secret) == IF secret # <<>> THEN <<"*", "*", "*">> ELSE <<>>

\* The safeNotifications object of GET /api/notifications
safeNotifications(n) ==
    [n EXCEPT !.email.smtp.auth.pass = Masked(@),
              !.sms.accountSid = Masked(@),
              !.sms.authToken = Masked(@)]

\* loadNotifications: a missing file and a decrypt that throws both end in the
\* catch block, which returns the default configuration.
loadNotifications(file, key) ==
    LET d == file.data
        pass == decrypt(key, d.email.smtp.auth.pass)
        sid == decrypt(key, d.sms.accountSid)
        token == decrypt(key, d.sms.authToken)
    IN  IF ~file.exists \/ pass.thrown \/ sid.thrown \/ token.thrown
        THEN DefaultNotifications
        ELSE [d EXCEPT !.email.smtp.auth.pass = pass.text,
                       !.sms.accountSid = sid.text,
                       !.sms.authToken = token.text]

\* The conditions under which initializeNotifications creates the two clients
EmailConfigured(n) ==
    /\ n.email.enabled
    /\ n.email.smtp.host # ""
    /\ n.email.smtp.auth.user # ""
    /\ n.email.smtp.auth.pass # <<>>

SmsConfigured(n) ==
    n.sms.enabled /\ n.sms.accountSid # <<>> /\ n.sms.authToken # <<>>

\* `transporter` and `twilioClient` are never declared: they exist only once
\* initializeNotifications has assigned them, and are never cleared.
InitTransporter(n, old) == IF EmailConfigured(n) THEN "client" ELSE old
InitTwilioClient(n, old) == IF SmsConfigured(n) THEN "client" ELSE old

(***************************************************************************)
(* History (src/app.js 313-354, 797-811)                                   *)
(***************************************************************************)
HistoryEntry(result) ==
    [timestamp |-> result.lastChecked, status |-> result.status,
     statusCode |-> result.statusCode, error |-> result.error]

\* moment(entry.timestamp).isAfter(moment().subtract(90, 'days'))
IsRecent(entry, t) == entry.timestamp > t - RetentionDays

\* Mutant: a starting process loads no history
LoadedNothing(list, files) ==
    [n \in {"A", "B"} |-> [defined |-> FALSE, entries |-> <<>>]]

\* Mutant: the history is written back without the filter
TrimNothing(history, t) == history

\* The filter of saveServiceHistory, evaluated when the save is called
TrimHistory(history, t) == SelectSeq(history, LAMBDA entry : IsRecent(entry, t))

\* A percentage as the exact quotient num / den
Percent(num, den) == [num |-> num, den |-> den]

\* Mutant: an empty or absent history counts as never up
UptimeZeroWhenEmpty(history) ==
    IF ~history.defined \/ Len(history.entries) = 0 THEN Percent(0, 1)
    ELSE Percent(Len(SelectSeq(history.entries, LAMBDA entry : entry.status = "up")) * 100,
                 Len(history.entries))

\* calculateUptime(history): (upEntries.length / history.length) * 100
calculateUptime(history) ==
    IF ~history.defined \/ Len(history.entries) = 0 THEN Percent(100, 1)
    ELSE Percent(Len(SelectSeq(history.entries, LAMBDA entry : entry.status = "up")) * 100,
                 Len(history.entries))

\* uptime.toFixed(2), in hundredths of a percent, rounded half up
ToFixed2(p) == (2 * 100 * p.num + p.den) \div (2 * p.den)

(***************************************************************************)
(* State                                                                   *)
(***************************************************************************)
Names == {"A", "B"}
Slots == {1, 2}
AddSlots == {1, 2}
Channels == {"email", "teams", "sms", "iphone"}
ChannelOrder == <<"email", "teams", "sms", "iphone">>

Absent == [kind |-> "absent"]     \* no StatusRecord
NoFile == [exists |-> FALSE, entries |-> <<>>]
Undefined == [defined |-> FALSE, entries |-> <<>>]

VARIABLES
    alive,              \* the process runs (FALSE after an unhandled rejection)
    boot,               \* progress of initialize(): "init", "cycle", "armed"
    now,                \* wall-clock time, in days
    services,           \* services.json: a sequence of service specs
    historyFiles,       \* config/history/<name>.json for every name
    notifFile,          \* notifications.json
    encryptionKey,      \* ENCRYPTION_KEY of this process
    transporter,        \* the global `transporter`: "undeclared" or "client"
    twilioClient,       \* the global `twilioClient`: "undeclared" or "client"
    serviceStatuses,    \* the in-memory map name -> last check result
    serviceHistories,   \* the in-memory map name -> history array
    cyc,                \* the executions of checkAllServices in progress
    addOp,              \* the POST /api/services requests in progress
    remOp,              \* the DELETE /api/services/:name request in progress
    started,            \* number of timer and check-now cycles started
    adminOps,           \* number of add/remove requests accepted
    configUpdates,      \* number of PUT /api/notifications requests served
    lastDecision,       \* history variable: the last StatusRecord written
    lastDispatch,       \* history variable: the last run of sendNotifications
    lastRemoval,        \* history variable: the last removal carried out
    observed,           \* history variable: the entries pushed for every
                        \* service by this process since the service was
                        \* added, and whether a history write has failed
    probe,              \* history variable: the input and the result of the
                        \* function a single-function specification applies,
                        \* or the last request on the notification
                        \* configuration with its response
    limits              \* the bounds of the behaviour: cycles, slots, adminOps,
                        \* updates, ticks, adders

vars == <<alive, boot, now, services, historyFiles, notifFile, encryptionKey,
          transporter, twilioClient, serviceStatuses, serviceHistories, cyc,
          addOp, remOp, started, adminOps, configUpdates, lastDecision,
          lastDispatch, lastRemoval, observed, probe, limits>>

durable == <<services, historyFiles, notifFile>>
clients == <<encryptionKey, transporter, twilioClient>>
memory == <<serviceStatuses, serviceHistories>>
admin == <<addOp, remOp, adminOps>>
ghosts == <<lastDecision, lastDispatch, lastRemoval, observed, limits>>

\* `first` is a history field: the cycle began before any result was recorded
\* in this process.
IdleCycle ==
    [pc |-> "idle", origin |-> "none", list |-> <<>>, results |-> <<>>,
     pending |-> {}, idx |-> 0, previousEntry |-> Absent,
     previousStatus |-> "unknown", trimmed |-> <<>>, savedAt |-> 0,
     first |-> FALSE]

IdleOp == [pc |-> "idle"]
None == [kind |-> "none"]

(***************************************************************************)
(* checkAllServices (src/app.js 773-827)                                   *)
(***************************************************************************)
\* What the endpoints of the monitored services do in the monitor's runs
Endpoints == {Answer(200, 10), Failure("ECONNREFUSED")}

\* Mutant: the prior StatusRecord is not consulted
PreviousStatusNotRead(previousEntry) == "unknown"

\* previousEntry ? previousEntry.status : 'unknown'
PreviousStatus(previousEntry) ==
    IF previousEntry = Absent THEN "unknown" ELSE previousEntry.status

\* Mutant: the first observation of a service is not taken for a change
StatusChangedIgnoringUnknown(previousStatus, status) ==
    previousStatus # "unknown" /\ previousStatus # status

\* previousStatus !== result.status
StatusChanged(previousStatus, status) == previousStatus # status

\* The loop of the update phase from the end of one iteration to the next
\* await: either the loop is over, or the next result's previous status is
\* read, its entry is pushed and saveServiceHistory is called, which filters
\* the history and starts the write.
Advance(c, statuses, histories, t) ==
    IF c.idx >= Len(c.list)
    THEN [cyc |-> IdleCycle, histories |-> histories, done |-> TRUE]
    ELSE LET result == c.results[c.idx + 1]
             name == result.name
             old == IF histories[name].defined THEN histories[name].entries ELSE <<>>
             pushed == Append(old, HistoryEntry(result))
         IN  [cyc |-> [c EXCEPT !.pc = "saving", !.idx = c.idx + 1,
                                !.previousEntry = statuses[name],
                                !.previousStatus = PreviousStatus(statuses[name]),
                                !.trimmed = TrimHistory(pushed, t),
                                !.savedAt = t],
              histories |-> [histories EXCEPT ![name] =
                                [defined |-> TRUE, entries |-> pushed]],
              done |-> FALSE]

NoObservations == [entries |-> [n \in Names |-> <<>>], writeFailed |-> FALSE]

\* The observations after a step of the update loop: the entry pushed for
\* the result the loop has turned to, if any
Observed(obs, next) ==
    IF next.done THEN obs
    ELSE LET result == next.cyc.results[next.cyc.idx]
         IN  [obs EXCEPT !.entries[result.name] = Append(@, HistoryEntry(result))]

\* setInterval(checkAllServices, 30000) is reached once the cycle that
\* initialize() awaits has returned.
BootAfter(c, done) == IF done /\ c.origin = "initial" THEN "armed" ELSE boot

\* The slot a new execution of checkAllServices takes in the model
FreeSlot == CHOOSE s \in limits.slots :
                /\ cyc[s].pc = "idle"
                /\ \A r \in limits.slots : cyc[r].pc = "idle" => s <= r

\* No cycle is running and no result has been recorded since the process
\* started
FirstSinceStart ==
    /\ lastDecision = [kind |-> "none"]
    /\ \A s \in Slots : cyc[s].pc = "idle"
    /\ \A n \in Names : serviceStatuses[n] = Absent

\* loadServices, then services.map(checkService): every probe is started.
\* Mutant: only the first probe is started
StartedFirstOnly(list) == IF list = <<>> THEN {} ELSE {1}

\* services.map(service => checkService(service)): every probe of the loaded
\* list is started before Promise.all is awaited
Started(list) == 1..Len(list)

\* checkAllServices() up to await Promise.all(promises)
BeginCycle(s, origin) ==
    LET c == [IdleCycle EXCEPT !.pc = "probing", !.origin = origin, !.list = services,
                               !.results = [i \in 1..Len(services) |-> Null],
                               !.pending = Started(services),
                               !.first = FirstSinceStart]
    IN  IF services = <<>>
        THEN /\ cyc' = [cyc EXCEPT ![s] = IdleCycle]
             /\ boot' = BootAfter(c, TRUE)
        ELSE /\ cyc' = [cyc EXCEPT ![s] = c]
             /\ boot' = IF origin = "initial" THEN "cycle" ELSE boot

\* initialize(): the first cycle
InitialCycle ==
    /\ alive /\ boot = "init"
    /\ \E s \in limits.slots : cyc[s].pc = "idle"
    /\ BeginCycle(FreeSlot, "initial")
    /\ UNCHANGED <<alive, now, durable, clients, memory, admin, started,
                   configUpdates, ghosts, probe>>

\* A tick of the 30 s timer
TimerTick ==
    /\ alive /\ boot = "armed"
    /\ started < limits.cycles
    /\ \E s \in limits.slots : cyc[s].pc = "idle"
    /\ BeginCycle(FreeSlot, "timer")
    /\ started' = started + 1
    /\ UNCHANGED <<alive, now, durable, clients, memory, admin,
                   configUpdates, ghosts, probe>>

\* GET /api/services/check
CheckNow ==
    /\ alive
    /\ started < limits.cycles
    /\ \E s \in limits.slots : cyc[s].pc = "idle"
    /\ BeginCycle(FreeSlot, "checkNow")
    /\ started' = started + 1
    /\ UNCHANGED <<alive, now, durable, clients, memory, admin,
                   configUpdates, ghosts, probe>>

\* One probe of a cycle returns; the last one resolves Promise.all and the
\* update loop runs up to its first await.
ProbeReturns(s, i, endpoint) ==
    /\ alive /\ cyc[s].pc = "probing" /\ i \in cyc[s].pending
    /\ LET c == cyc[s]
           got == [c EXCEPT !.results[i] = CheckService(c.list[i], endpoint, now),
                            !.pending = @ \ {i}]
           next == Advance(got, serviceStatuses, serviceHistories, now)
       IN  IF got.pending # {}
           THEN /\ cyc' = [cyc EXCEPT ![s] = got]
                /\ UNCHANGED <<serviceHistories, observed>>
           ELSE /\ cyc' = [cyc EXCEPT ![s] = next.cyc]
                /\ serviceHistories' = next.histories
                /\ observed' = Observed(observed, next)
    /\ UNCHANGED <<alive, boot, now, durable, clients, serviceStatuses, admin,
                   started, configUpdates, lastDecision, lastDispatch,
                   lastRemoval, limits, probe>>

\* fs.writeFile of saveServiceHistory completes
SaveWrites(s) ==
    /\ alive /\ cyc[s].pc = "saving"
    /\ LET name == cyc[s].results[cyc[s].idx].name
       IN  historyFiles' = [historyFiles EXCEPT ![name] =
                               [exists |-> TRUE, entries |-> cyc[s].trimmed]]
    /\ cyc' = [cyc EXCEPT ![s].pc = "written"]
    /\ UNCHANGED <<alive, boot, now, services, notifFile, clients, memory, admin,
                   started, configUpdates, ghosts, probe>>

\* An exception leaving checkAllServices: the timer's callback and
\* initialize() leave the rejection unhandled, which ends the process; for a
\* check-now request the HTTP layer may also turn it into an error response.
Rejected(s, handled) ==
    /\ handled => cyc[s].origin = "checkNow"
    /\ alive' = handled
    /\ cyc' = IF handled THEN [cyc EXCEPT ![s] = IdleCycle] ELSE cyc

\* fs.writeFile of saveServiceHistory fails: checkAllServices rejects, and
\* nothing handles the rejection.
SaveFails(s, handled) ==
    /\ alive /\ cyc[s].pc = "saving"
    /\ Rejected(s, handled)
    /\ observed' = [observed EXCEPT !.writeFailed = TRUE]
    /\ UNCHANGED <<boot, now, durable, clients, memory, admin, started,
                   configUpdates, lastDecision, lastDispatch, lastRemoval,
                   limits, probe>>

\* saveServiceHistory returns: the trimmed array replaces the in-memory
\* history, the StatusRecord is overwritten and the transition is evaluated.
SaveReturns(s) ==
    /\ alive /\ cyc[s].pc = "written"
    /\ LET c == cyc[s]
           result == c.results[c.idx]
           name == result.name
           histories == [serviceHistories EXCEPT ![name] =
                            [defined |-> TRUE, entries |-> c.trimmed]]
           statuses == [serviceStatuses EXCEPT ![name] = result]
           notify == StatusChanged(c.previousStatus, result.status)
           next == Advance(c, statuses, histories, now)
       IN  /\ serviceStatuses' = statuses
           /\ lastDecision' = [by |-> "cycle", name |-> name,
                               previousEntry |-> c.previousEntry,
                               previousStatus |-> c.previousStatus,
                               overwritten |-> serviceStatuses[name],
                               status |-> result.status, dispatched |-> notify]
           /\ IF notify
              THEN /\ cyc' = [cyc EXCEPT ![s].pc = "notify"]
                   /\ serviceHistories' = histories
                   /\ UNCHANGED <<boot, observed>>
              ELSE /\ cyc' = [cyc EXCEPT ![s] = next.cyc]
                   /\ serviceHistories' = next.histories
                   /\ observed' = Observed(observed, next)
                   /\ boot' = BootAfter(c, next.done)
    /\ UNCHANGED <<alive, now, durable, clients, admin, started, configUpdates,
                   lastDispatch, lastRemoval, probe, limits>>

(***************************************************************************)
(* sendNotifications and the four channel senders (src/app.js 356-720)     *)
(***************************************************************************)
NoOutcome == [entered |-> {}, attempted |-> {}, failed |-> {}, threw |-> FALSE]

\* A channel sender that gets as far as its network call: an error of the
\* call (ch \in failing) is caught and logged inside the sender.
Attempt(ch, failing, acc) ==
    [acc EXCEPT !.entered = @ \cup {ch}, !.attempted = @ \cup {ch},
                !.failed = @ \cup ({ch} \cap failing)]

\* sendEmailNotification and sendSmsNotification test their client with
\* `if (!client)` before their try block: an identifier that was never
\* assigned makes that test throw a ReferenceError.
ViaClient(ch, client, failing, acc) ==
    IF client = "undeclared"
    THEN [acc EXCEPT !.entered = @ \cup {ch}, !.threw = TRUE]
    ELSE Attempt(ch, failing, acc)

\* sendTeamsNotification and sendIphoneNotification return early without a
\* webhook URL.
ViaWebhook(ch, url, failing, acc) ==
    IF url = "" THEN [acc EXCEPT !.entered = @ \cup {ch}]
    ELSE Attempt(ch, failing, acc)

\* One `if (notifications.<channel>.enabled) await send...` of sendNotifications
SendChannel(ch, n, tr, tw, failing, acc) ==
    CASE ch = "email" -> IF n.email.enabled THEN ViaClient(ch, tr, failing, acc) ELSE acc
      [] ch = "teams" -> IF n.teams.enabled
                         THEN ViaWebhook(ch, n.teams.webhookUrl, failing, acc) ELSE acc
      [] ch = "sms" -> IF n.sms.enabled THEN ViaClient(ch, tw, failing, acc) ELSE acc
      [] ch = "iphone" -> IF n.iphone.enabled
                          THEN ViaWebhook(ch, n.iphone.webhookUrl, failing, acc) ELSE acc

\* The channels in their fixed order; an exception ends the function.
RECURSIVE RunChannels(_, _, _, _, _, _)
RunChannels(i, n, tr, tw, failing, acc) ==
    IF i > Len(ChannelOrder) \/ acc.threw THEN acc
    ELSE RunChannels(i + 1, n, tr, tw, failing,
                     SendChannel(ChannelOrder[i], n, tr, tw, failing, acc))

sendNotifications(n, tr, tw, previousStatus, status, failing) ==
    IF previousStatus = status THEN NoOutcome
    ELSE RunChannels(1, n, tr, tw, failing, NoOutcome)

\* The channels sendNotifications is to call for a configuration
Enabled(n) ==
    {ch \in Channels : CASE ch = "email" -> n.email.enabled
                         [] ch = "teams" -> n.teams.enabled
                         [] ch = "sms" -> n.sms.enabled
                         [] ch = "iphone" -> n.iphone.enabled}

\* `await sendNotifications(result, previousStatus)` of the update loop
SendNotifications(s) ==
    /\ alive /\ cyc[s].pc = "notify"
    /\ LET c == cyc[s]
           result == c.results[c.idx]
           n == loadNotifications(notifFile, encryptionKey)
           reach == sendNotifications(n, transporter, twilioClient, c.previousStatus,
                                      result.status, {}).attempted
           next == Advance(c, serviceStatuses, serviceHistories, now)
       IN  \E failing \in SUBSET reach :
              LET out == sendNotifications(n, transporter, twilioClient, c.previousStatus,
                                           result.status, failing)
              IN  /\ lastDispatch' = [slot |-> s, name |-> result.name,
                                      previousStatus |-> c.previousStatus,
                                      status |-> result.status,
                                      enabled |-> Enabled(n), outcome |-> out]
                  /\ IF out.threw
                     THEN /\ \E handled \in BOOLEAN : Rejected(s, handled)
                          /\ UNCHANGED <<serviceHistories, boot, observed>>
                     ELSE /\ cyc' = [cyc EXCEPT ![s] = next.cyc]
                          /\ serviceHistories' = next.histories
                          /\ observed' = Observed(observed, next)
                          /\ boot' = BootAfter(c, next.done)
                          /\ UNCHANGED alive
    /\ UNCHANGED <<now, durable, clients, serviceStatuses, admin, started,
                   configUpdates, lastDecision, lastRemoval, probe, limits>>

\* `await axios.post(notifications.teams.webhookUrl, ...)` of
\* sendTeamsNotification is made without a timeout: when the endpoint accepts
\* the request and never answers, the promise never settles and the update
\* loop stays at `await sendNotifications(...)`.
TeamsNeverAnswers(s) ==
    /\ alive /\ cyc[s].pc = "notify"
    /\ LET c == cyc[s]
           n == loadNotifications(notifFile, encryptionKey)
           out == sendNotifications(n, transporter, twilioClient, c.previousStatus,
                                    c.results[c.idx].status, {})
       IN  "teams" \in out.attempted
    /\ cyc' = [cyc EXCEPT ![s].pc = "awaiting"]
    /\ UNCHANGED <<alive, boot, now, durable, clients, memory, admin, started,
                   configUpdates, ghosts, probe>>

(***************************************************************************)
(* PUT /api/notifications (src/app.js 1008-1019)                           *)
(***************************************************************************)
\* saveNotifications(body), then initializeNotifications() on what is stored
UpdateNotifications(n, ivs) ==
    /\ alive
    /\ configUpdates < limits.updates
    /\ LET file == saveNotifications(n, encryptionKey, ivs)
           loaded == loadNotifications(file, encryptionKey)
       IN  /\ notifFile' = file
           /\ transporter' = InitTransporter(loaded, transporter)
           /\ twilioClient' = InitTwilioClient(loaded, twilioClient)
    /\ configUpdates' = configUpdates + 1
    /\ probe' = [kind |-> "update", body |-> n, after |-> n]
    /\ UNCHANGED <<alive, boot, now, services, historyFiles, encryptionKey,
                   memory, cyc, admin, started, ghosts>>

\* GET /api/notifications: loadNotifications, then the masked copy is sent
ReadNotifications ==
    /\ alive
    /\ probe' = [kind |-> "read", stored |-> notifFile,
                 response |-> safeNotifications(
                                 loadNotifications(notifFile, encryptionKey))]
    /\ UNCHANGED <<alive, boot, now, durable, clients, memory, cyc, admin, started,
                   configUpdates, ghosts>>

\* The wall clock
Tick ==
    /\ alive
    /\ now < limits.ticks * ClockStep
    /\ now' = now + ClockStep
    /\ UNCHANGED <<alive, boot, durable, clients, memory, cyc, admin, started,
                   configUpdates, ghosts, probe>>

(***************************************************************************)
(* POST /api/services (src/app.js 881-928)                                 *)
(***************************************************************************)
ListedNames(list) == {list[i].name : i \in 1..Len(list)}

\* Mutant: the check for an existing name always passes
ExistsNever(list, name) == FALSE

\* services.some(service => service.name === newService.name)
Exists(list, name) == name \in ListedNames(list)

\* The add requests in progress
Adding == {a \in AddSlots : addOp[a].pc # "idle"}

\* The place a new add request takes in the model
FreeAdder == CHOOSE a \in limits.adders :
                 /\ addOp[a].pc = "idle"
                 /\ \A r \in limits.adders : addOp[r].pc = "idle" => a <= r

\* The request body of an add: the timeout and the expected status are unset
NewService(name) == ServiceSpec(name, 0, 0)

\* loadServices has returned: a duplicate name is answered 400, otherwise the
\* new service is pushed onto the loaded list and saveServices is called.
AddService(name) ==
    /\ alive /\ \E a \in limits.adders : addOp[a].pc = "idle"
    /\ adminOps < limits.adminOps
    /\ adminOps' = adminOps + 1
    /\ addOp' = IF Exists(services, name) THEN addOp
                ELSE [addOp EXCEPT ![FreeAdder] =
                         [pc |-> "saving", service |-> NewService(name),
                          list |-> Append(services, NewService(name))]]
    /\ UNCHANGED <<alive, boot, now, durable, clients, memory, cyc, remOp, started,
                   configUpdates, ghosts, probe>>

\* saveServices has written the list: the history of the new service is
\* initialised and its immediate probe is started.
AddSaved(a) ==
    /\ alive /\ addOp[a].pc = "saving"
    /\ services' = addOp[a].list
    /\ serviceHistories' = [serviceHistories EXCEPT ![addOp[a].service.name] =
                               [defined |-> TRUE, entries |-> <<>>]]
    /\ observed' = [observed EXCEPT !.entries[addOp[a].service.name] = <<>>]
    /\ addOp' = [addOp EXCEPT ![a].pc = "probing"]
    /\ UNCHANGED <<alive, boot, now, historyFiles, notifFile, clients,
                   serviceStatuses, cyc, remOp, adminOps, started, configUpdates,
                   lastDecision, lastDispatch, lastRemoval, limits, probe>>

\* The immediate probe returns: its entry is pushed and saveServiceHistory is
\* called.  Pushing onto a history that a removal has deleted meanwhile throws
\* a TypeError out of the handler.
AddProbed(a, endpoint, handled) ==
    /\ alive /\ addOp[a].pc = "probing"
    /\ LET name == addOp[a].service.name
           result == CheckService(addOp[a].service, endpoint, now)
           pushed == Append(serviceHistories[name].entries, HistoryEntry(result))
       IN  IF serviceHistories[name].defined
           THEN /\ ~handled
                /\ serviceHistories' = [serviceHistories EXCEPT ![name].entries = pushed]
                /\ addOp' = [addOp EXCEPT ![a] =
                                [pc |-> "history", service |-> addOp[a].service,
                                 result |-> result,
                                 trimmed |-> TrimHistory(pushed, now)]]
                /\ observed' = [observed EXCEPT !.entries[name] =
                                    Append(@, HistoryEntry(result))]
                /\ UNCHANGED alive
           ELSE /\ alive' = handled
                /\ addOp' = [addOp EXCEPT ![a] = IdleOp]
                /\ UNCHANGED <<serviceHistories, observed>>
    /\ UNCHANGED <<boot, now, durable, clients, serviceStatuses, cyc, remOp,
                   adminOps, started, configUpdates, lastDecision, lastDispatch,
                   lastRemoval, limits, probe>>

\* saveServiceHistory has written the file: the StatusRecord is stored and the
\* result is sent back with status 201 and the uptime of the in-memory
\* history.  No notification is sent.
AddDone(a) ==
    /\ alive /\ addOp[a].pc = "history"
    /\ LET name == addOp[a].service.name
       IN  /\ historyFiles' = [historyFiles EXCEPT ![name] =
                                  [exists |-> TRUE, entries |-> addOp[a].trimmed]]
           /\ serviceStatuses' = [serviceStatuses EXCEPT ![name] = addOp[a].result]
           /\ lastDecision' = [by |-> "add", name |-> name,
                               previousEntry |-> serviceStatuses[name],
                               previousStatus |-> "none",
                               overwritten |-> serviceStatuses[name],
                               status |-> addOp[a].result.status,
                               dispatched |-> FALSE,
                               result |-> addOp[a].result,
                               uptime |-> ToFixed2(calculateUptime(
                                   IF serviceHistories[name].defined
                                   THEN serviceHistories[name]
                                   ELSE [defined |-> TRUE, entries |-> <<>>]))]
    /\ addOp' = [addOp EXCEPT ![a] = IdleOp]
    /\ UNCHANGED <<alive, boot, now, services, notifFile, clients, serviceHistories,
                   cyc, remOp, adminOps, started, configUpdates, lastDispatch,
                   lastRemoval, observed, probe, limits>>

(***************************************************************************)
(* DELETE /api/services/:name (src/app.js 931-955)                         *)
(***************************************************************************)
Without(list, name) == SelectSeq(list, LAMBDA service : service.name # name)

\* History of a removal: what the request found when it arrived, and whether
\* a cycle or an add was in progress then.
Found ==
    [services |-> services, statuses |-> serviceStatuses,
     histories |-> serviceHistories, files |-> historyFiles,
     started |-> started, boot |-> boot, adminOps |-> adminOps + 1,
     quiet |-> Adding = {} /\ \A s \in Slots : cyc[s].pc = "idle"]

\* No cycle and no other request on the service list has run since the
\* removal arrived.
Undisturbed(before) ==
    /\ before.quiet
    /\ started = before.started /\ boot = before.boot /\ adminOps = before.adminOps
    /\ Adding = {} /\ \A s \in Slots : cyc[s].pc = "idle"

\* loadServices has returned: an unknown name is answered 404, otherwise
\* saveServices is called with the filtered list.
RemoveService(name) ==
    /\ alive /\ remOp.pc = "idle"
    /\ adminOps < limits.adminOps
    /\ adminOps' = adminOps + 1
    /\ IF Len(Without(services, name)) = Len(services)
       THEN /\ remOp' = IdleOp
            /\ lastRemoval' = [name |-> name, found |-> FALSE, midCycle |-> FALSE,
                               quiet |-> Found.quiet]
       ELSE /\ remOp' = [pc |-> "saving", name |-> name,
                         list |-> Without(services, name), before |-> Found]
            /\ UNCHANGED lastRemoval
    /\ UNCHANGED <<alive, boot, now, durable, clients, memory, cyc, addOp, started,
                   configUpdates, lastDecision, lastDispatch, observed, limits,
                   probe>>

\* A cycle that has loaded the service is still running
LoadedInFlight(name) ==
    \E s \in Slots : cyc[s].pc # "idle" /\ name \in ListedNames(cyc[s].list)

\* saveServices has written the list: the StatusRecord and the in-memory
\* history are deleted and the unlink of the history file is started.
RemoveSaved ==
    /\ alive /\ remOp.pc = "saving"
    /\ services' = remOp.list
    /\ serviceStatuses' = [serviceStatuses EXCEPT ![remOp.name] = Absent]
    /\ serviceHistories' = [serviceHistories EXCEPT ![remOp.name] = Undefined]
    /\ remOp' = [pc |-> "unlinking", name |-> remOp.name,
                 midCycle |-> LoadedInFlight(remOp.name), before |-> remOp.before]
    /\ observed' = [observed EXCEPT !.entries[remOp.name] = <<>>]
    /\ UNCHANGED <<alive, boot, now, historyFiles, notifFile, clients, cyc, addOp,
                   adminOps, started, configUpdates, lastDecision, lastDispatch,
                   lastRemoval, limits, probe>>

\* Mutant: the history file is left in place
UnlinkSkipped(files, name) == files

\* fs.unlink(historyFile)
Unlinked(files, name) == [files EXCEPT ![name] = NoFile]

\* fs.unlink has returned (a missing file is ignored): 204 is sent.
RemoveDone ==
    /\ alive /\ remOp.pc = "unlinking"
    /\ historyFiles' = Unlinked(historyFiles, remOp.name)
    /\ lastRemoval' = [name |-> remOp.name, found |-> TRUE,
                       midCycle |-> remOp.midCycle \/ LoadedInFlight(remOp.name),
                       quiet |-> Undisturbed(remOp.before)]
    /\ remOp' = IdleOp
    /\ UNCHANGED <<alive, boot, now, services, notifFile, clients, memory, cyc,
                   addOp, adminOps, started, configUpdates, lastDecision,
                   lastDispatch, observed, probe, limits>>

(***************************************************************************)
(* The monitor: one process from initialize() on                           *)
(***************************************************************************)
\* A configuration file written by hand, without secrets: mail is enabled
\* but has no SMTP host, the chat webhook is complete.
HandWritten ==
    [exists |-> TRUE,
     data |-> Notifications(TRUE, "", "", <<>>, TRUE, "hook", FALSE, <<>>, <<>>, FALSE, "")]

Limits(nCycles, usable, nAdminOps, nUpdates, nTicks) ==
    [cycles |-> nCycles, slots |-> usable, adminOps |-> nAdminOps,
     updates |-> nUpdates, ticks |-> nTicks, adders |-> {1}]

\* initializeServiceHistories: the history file of every listed service
LoadedHistories(list, files) ==
    [n \in Names |-> IF n \in ListedNames(list)
                     THEN [defined |-> TRUE, entries |-> files[n].entries]
                     ELSE Undefined]

\* A process at the point where initialize() is about to run its first cycle:
\* the clients exist as initializeNotifications left them, the histories of
\* the listed services are loaded, no service has a StatusRecord.
InitProcess(list, file, key) ==
    /\ alive = TRUE
    /\ boot = "init"
    /\ now = 0
    /\ services = list
    /\ historyFiles = [n \in Names |-> NoFile]
    /\ notifFile = file
    /\ encryptionKey = key
    /\ transporter = InitTransporter(loadNotifications(file, key), "undeclared")
    /\ twilioClient = InitTwilioClient(loadNotifications(file, key), "undeclared")
    /\ serviceStatuses = [n \in Names |-> Absent]
    /\ serviceHistories = LoadedHistories(list, [n \in Names |-> NoFile])
    /\ cyc = [s \in Slots |-> IdleCycle]
    /\ addOp = [a \in AddSlots |-> IdleOp]
    /\ remOp = IdleOp
    /\ started = 0
    /\ adminOps = 0
    /\ configUpdates = 0
    /\ lastDecision = None
    /\ lastDispatch = None
    /\ lastRemoval = None
    /\ observed = NoObservations

\* crypto.randomBytes(32) at the start of a process: a key that no earlier
\* process had (the keys of successive processes are numbered upwards)
FreshKeys(key) == {k \in Keys : k > key}

\* The process ends (it is stopped, or an unhandled rejection has ended it)
\* and is started again: the module-level state is initialised anew, a key is
\* drawn, and initialize() runs up to its first cycle.  Requests and writes
\* that were in progress are lost.
Restart ==
    /\ \E key \in FreshKeys(encryptionKey) :
          /\ encryptionKey' = key
          /\ transporter' = InitTransporter(loadNotifications(notifFile, key),
                                            "undeclared")
          /\ twilioClient' = InitTwilioClient(loadNotifications(notifFile, key),
                                              "undeclared")
    /\ alive' = TRUE
    /\ boot' = "init"
    /\ serviceStatuses' = [n \in Names |-> Absent]
    /\ serviceHistories' = LoadedHistories(services, historyFiles)
    /\ cyc' = [s \in Slots |-> IdleCycle]
    /\ addOp' = [a \in AddSlots |-> IdleOp]
    /\ remOp' = IdleOp
    /\ lastDecision' = None
    /\ lastDispatch' = None
    /\ lastRemoval' = None
    /\ observed' = NoObservations
    /\ probe' = None
    /\ UNCHANGED <<now, durable, started, adminOps, configUpdates, limits>>

Cycle ==
    \/ InitialCycle
    \/ TimerTick
    \/ CheckNow
    \/ \E s \in Slots : \E i \in 1..Cardinality(Names) : \E e \in Endpoints :
          ProbeReturns(s, i, e)
    \/ \E s \in Slots : SaveWrites(s)
    \/ \E s \in Slots : \E handled \in BOOLEAN : SaveFails(s, handled)
    \/ \E s \in Slots : SaveReturns(s)
    \/ \E s \in Slots : SendNotifications(s)

Admin ==
    \/ \E name \in Names : AddService(name)
    \/ \E a \in AddSlots : AddSaved(a)
    \/ \E a \in AddSlots : \E e \in Endpoints : \E handled \in BOOLEAN :
          AddProbed(a, e, handled)
    \/ \E a \in AddSlots : AddDone(a)
    \/ \E name \in Names : RemoveService(name)
    \/ RemoveSaved
    \/ RemoveDone

\* The request bodies of PUT /api/notifications in the model
AllChannels ==
    Notifications(TRUE, "smtp", "user", <<"a", "b">>, TRUE, "hook",
                  TRUE, <<"a">>, <<"b">>, TRUE, "hook")
Incomplete ==
    Notifications(TRUE, "", "user", <<"a">>, TRUE, "hook", TRUE, <<>>, <<"b">>, TRUE, "")
ConfigChoices == {AllChannels, Incomplete, DefaultNotifications}

Remove ==
    \/ \E name \in Names : RemoveService(name)
    \/ RemoveSaved
    \/ RemoveDone

Config ==
    \E n \in ConfigChoices : \E ivs \in [1..3 -> IVs] : UpdateNotifications(n, ivs)

\* Overlapping timer and check-now cycles over a fixed service list
Init ==
    /\ \E file \in {NoNotificationsFile, HandWritten} :
          InitProcess(<<NewService("A")>>, file, 0)
    /\ limits = Limits(MaxCycles, Slots, 0, 0, 0)
    /\ probe = None

Next == Cycle

Spec == Init /\ [][Next]_vars

\* Cycles interleaved with add and remove requests
InitAdmin ==
    /\ InitProcess(<<NewService("A")>>, NoNotificationsFile, 0)
    /\ limits = Limits(AdminCycles, {1}, MaxAdminOps, 0, 0)
    /\ probe = None

NextAdmin == Cycle \/ Admin

SpecAdmin == InitAdmin /\ [][NextAdmin]_vars

\* Cycles while the clock advances
InitRetention ==
    /\ InitProcess(<<NewService("A")>>, NoNotificationsFile, 0)
    /\ limits = Limits(RetentionCycles, Slots, 0, 0, MaxTicks)
    /\ probe = None

NextRetention == Cycle \/ Tick

SpecRetention == InitRetention /\ [][NextRetention]_vars

\* Cycles interleaved with updates of the notification configuration
InitNotify ==
    /\ InitProcess(<<NewService("A")>>, NoNotificationsFile, 0)
    /\ limits = Limits(NotifyCycles, {1}, 0, MaxConfigUpdates, 0)
    /\ probe = None

NextNotify == Cycle \/ Config

SpecNotify == InitNotify /\ [][NextNotify]_vars

\* The notification configuration as a process finds it at its start: no
\* file, a file written by hand, or a file that saveNotifications wrote in an
\* earlier process, under that process's key
StoredFiles ==
    {NoNotificationsFile, HandWritten} \cup
    {saveNotifications(n, key, ivs) :
        n \in ConfigChoices, key \in Keys, ivs \in [1..3 -> IVs]}

\* Reads and updates of the notification configuration, and restarts
InitConfig ==
    /\ \E file \in StoredFiles : \E key \in Keys :
          InitProcess(<<>>, file, key)
    /\ limits = Limits(0, {}, 0, MaxConfigUpdates, 0)
    /\ probe = None

NextConfig == ReadNotifications \/ Config \/ Restart

SpecConfig == InitConfig /\ [][NextConfig]_vars

\* Cycles, one at a time, over a list of two services
InitPair ==
    /\ \E file \in {NoNotificationsFile, HandWritten} :
          InitProcess(<<NewService("A"), NewService("B")>>, file, 0)
    /\ limits = Limits(PairCycles, {1}, 0, 0, 0)
    /\ probe = None

NextPair == Cycle

SpecPair == InitPair /\ [][NextPair]_vars

\* Cycles, one at a time, and remove requests on a list of two services
InitRemove ==
    /\ InitProcess(<<NewService("A"), NewService("B")>>, NoNotificationsFile, 0)
    /\ limits = Limits(PairCycles, {1}, MaxRemovals, 0, 0)
    /\ probe = None

NextRemove == Cycle \/ Remove

SpecRemove == InitRemove /\ [][NextRemove]_vars

\* Add and remove requests, two adds at a time, with no cycle running
InitList ==
    /\ InitProcess(<<NewService("A")>>, NoNotificationsFile, 0)
    /\ limits = [Limits(0, {}, ListOps, 0, 0) EXCEPT !.adders = AddSlots]
    /\ probe = None

NextList == Admin

SpecList == InitList /\ [][NextList]_vars

\* Cycles, one at a time, over a list of two services, and restarts
InitRestart ==
    /\ \E file \in {NoNotificationsFile, HandWritten} :
          InitProcess(<<NewService("A"), NewService("B")>>, file, 0)
    /\ limits = Limits(RestartCycles, {1}, 0, 0, 0)
    /\ probe = None

NextRestart == Cycle \/ Restart

SpecRestart == InitRestart /\ [][NextRestart]_vars

(***************************************************************************)
(* checkService on its own: one probe of one service spec                  *)
(***************************************************************************)
ExpectedStatuses == {0, 200, 201, 404, 500}
Timeouts == {0, 1000}
StatusCodes == {200, 201, 204, 404, 500}
Delays == {10, 3000, 6000}
FailureMessages == {"ENOTFOUND", "ECONNREFUSED", "CERT_HAS_EXPIRED"}

ProbeServices == {ServiceSpec("A", t, e) : t \in Timeouts, e \in ExpectedStatuses}
ProbeEndpoints == {Answer(c, d) : c \in StatusCodes, d \in Delays}
                      \cup {Failure(m) : m \in FailureMessages}

InitCheck ==
    /\ InitProcess(<<>>, NoNotificationsFile, 0)
    /\ limits = Limits(0, {}, 0, 0, 0)
    /\ \E service \in ProbeServices : \E endpoint \in ProbeEndpoints :
          probe = [service |-> service, endpoint |-> endpoint, result |-> None]

Probe ==
    /\ probe.result = None
    /\ probe' = [probe EXCEPT !.result = CheckService(probe.service, probe.endpoint, now)]
    /\ UNCHANGED <<alive, boot, now, durable, clients, memory, cyc, admin, started,
                   configUpdates, ghosts>>

NextCheck == Probe

SpecCheck == InitCheck /\ [][NextCheck]_vars

(***************************************************************************)
(* calculateUptime on its own, as GET /api/services/:name/history calls it *)
(***************************************************************************)
Statuses == {"up", "down"}

\* The in-memory histories of the model: absent, or up to MaxHistory entries
UptimeHistories ==
    {Undefined} \cup
    {[defined |-> TRUE,
      entries |-> [i \in 1..n |->
                     [timestamp |-> i, status |-> f[i], statusCode |-> Null,
                      error |-> Null]]] :
        n \in 0..MaxHistory, f \in [1..MaxHistory -> Statuses]}

InitUptime ==
    /\ InitProcess(<<>>, NoNotificationsFile, 0)
    /\ limits = Limits(0, {}, 0, 0, 0)
    /\ \E history \in UptimeHistories :
          probe = [history |-> history, uptime |-> None, fixed |-> None]

\* serviceHistories[name] || [], calculateUptime, uptime.toFixed(2)
HistoryUptime ==
    /\ probe.uptime = None
    /\ LET history == IF probe.history.defined THEN probe.history
                      ELSE [defined |-> TRUE, entries |-> <<>>]
       IN  probe' = [probe EXCEPT !.uptime = calculateUptime(probe.history),
                                  !.fixed = ToFixed2(calculateUptime(history))]
    /\ UNCHANGED <<alive, boot, now, durable, clients, memory, cyc, admin, started,
                   configUpdates, ghosts>>

NextUptime == HistoryUptime

SpecUptime == InitUptime /\ [][NextUptime]_vars

(***************************************************************************)
(* The vault on its own: encrypt in one process, decrypt in the same or in *)
(* a later one, whose ENCRYPTION_KEY is drawn anew                         *)
(***************************************************************************)
VaultAlphabet == {"a", "b", ":", "0", "1", "2", "3"}
Encryptable == {"a", "b", ":"}

VaultTexts == UNION {[1..n -> VaultAlphabet] : n \in 0..MaxText}

Over(text, alphabet) == \A i \in 1..Len(text) : text[i] \in alphabet

InitVault ==
    /\ InitProcess(<<>>, NoNotificationsFile, 0)
    /\ limits = Limits(0, {}, 0, 0, 0)
    /\ \E key \in Keys, readKey \in Keys, iv \in IVs, text \in VaultTexts :
          probe = [key |-> key, readKey |-> readKey, iv |-> iv, text |-> text,
                   stage |-> "input", cipher |-> None, plain |-> None, again |-> None]

\* encrypt(text) in the process that holds probe.key
VaultEncrypt ==
    /\ probe.stage = "input" /\ Over(probe.text, Encryptable)
    /\ probe' = [probe EXCEPT !.stage = "encrypted",
                              !.cipher = encrypt(probe.key, probe.iv, probe.text)]
    /\ UNCHANGED <<alive, boot, now, durable, clients, memory, cyc, admin, started,
                   configUpdates, ghosts>>

\* decrypt(text) in the process that holds probe.readKey, applied to the
\* stored ciphertext, to a text as it is found in the file, or once more to
\* what a decrypt returned
VaultDecrypt ==
    /\ \/ /\ probe.stage = "input"
          /\ probe' = [probe EXCEPT !.stage = "decrypted",
                                    !.plain = decrypt(probe.readKey, probe.text)]
       \/ /\ probe.stage = "encrypted"
          /\ probe' = [probe EXCEPT !.stage = "decrypted",
                                    !.plain = decrypt(probe.readKey, probe.cipher)]
       \/ /\ probe.stage = "decrypted" /\ ~probe.plain.thrown
          /\ probe' = [probe EXCEPT !.stage = "again",
                                    !.again = decrypt(probe.readKey, probe.plain.text)]
    /\ UNCHANGED <<alive, boot, now, durable, clients, memory, cyc, admin, started,
                   configUpdates, ghosts>>

NextVault == VaultEncrypt \/ VaultDecrypt

SpecVault == InitVault /\ [][NextVault]_vars

(***************************************************************************)
(* Progress of the cycles: one service, with or without a chat webhook,    *)
(* whose endpoint answers, fails or stays silent.  Every probe returns     *)
(* (axios.get has a timeout), every write to a history file completes or   *)
(* fails, the code after an await runs once the awaited promise settles,   *)
(* and a channel call that is answered or fails returns.                   *)
(***************************************************************************)
TeamsOnly ==
    [exists |-> TRUE,
     data |-> Notifications(FALSE, "", "", <<>>, TRUE, "hook", FALSE, <<>>, <<>>, FALSE, "")]

InitLive ==
    /\ \E file \in {NoNotificationsFile, TeamsOnly} :
          InitProcess(<<NewService("A")>>, file, 0)
    /\ limits = Limits(LiveCycles, Slots, 0, 0, 0)
    /\ probe = None

NextLive == Cycle \/ \E s \in Slots : TeamsNeverAnswers(s)

Progress ==
    \A s \in Slots :
       /\ WF_vars(\E i \in 1..Cardinality(Names) : \E e \in Endpoints :
                     ProbeReturns(s, i, e))
       /\ WF_vars(SaveWrites(s))
       /\ WF_vars(SaveReturns(s))
       /\ WF_vars(SendNotifications(s))

SpecLive == InitLive /\ [][NextLive]_vars /\ Progress

(***************************************************************************)
(* Properties                                                              *)
(***************************************************************************)
Busy == {s \in Slots : cyc[s].pc # "idle"}
CurrentResult(s) == cyc[s].results[cyc[s].idx]
StatusOfRecord(record) == IF record = Absent THEN "unknown" ELSE record.status

C2_OneDispatchPerChange ==
    (lastDecision # None /\ lastDecision.by = "cycle"
        /\ lastDecision.previousEntry # Absent
        /\ lastDecision.overwritten # Absent) =>
       /\ lastDecision.dispatched <=>
             lastDecision.overwritten.status # lastDecision.status
       /\ lastDecision.dispatched =>
             lastDecision.previousStatus = lastDecision.overwritten.status

\* C3: at no time are two executions of checkAllServices in progress.
C3_NoOverlap == Cardinality(Busy) <= 1

\* C4: once a removal that happened while a cycle had the service loaded has
\* completed and that cycle has finished, the removed service has no history
\* file, no in-memory history and no StatusRecord.
C4_NoResurrection ==
    (/\ alive /\ lastRemoval # None /\ lastRemoval.midCycle
     /\ Busy = {} /\ Adding = {} /\ remOp.pc = "idle"
     /\ lastRemoval.name \notin ListedNames(services)) =>
       /\ ~historyFiles[lastRemoval.name].exists
       /\ ~serviceHistories[lastRemoval.name].defined
       /\ serviceStatuses[lastRemoval.name] = Absent

\* C5: in a dispatch, every channel that is enabled has its sender called,
\* whatever happened to the channels before it (a failed send, a missing
\* client).
C5_ChannelIsolation ==
    lastDispatch # None => lastDispatch.enabled \subseteq lastDispatch.outcome.entered

\* C6: whichever operation stores the first StatusRecord of a service also
\* invokes the dispatch for it.
C6_FirstObservationAlerts ==
    (lastDecision # None /\ lastDecision.previousEntry = Absent) =>
       lastDecision.dispatched

ProbeAnswered ==
    /\ probe # None /\ probe.result # None
    /\ probe.endpoint.kind = "answer"
    /\ probe.endpoint.delay <= (IF probe.service.timeout = 0 THEN DefaultTimeout
                                ELSE probe.service.timeout)
ProbeExpected ==
    IF probe.service.expectedStatus = 0 THEN DefaultExpectedStatus
    ELSE probe.service.expectedStatus

\* C7: an endpoint that answers with exactly the expected status code is
\* reported up without an error, one that answers with any other code down.
C7_ExpectedCodeIsUp ==
    ProbeAnswered =>
       IF probe.endpoint.code = ProbeExpected
       THEN probe.result.status = "up" /\ probe.result.error = Null
       ELSE probe.result.status = "down"

\* C8: an answer with another status code than the expected one is reported
\* down with the actual code and the error 'Expected status <expected>, got
\* <actual>'.
C8_MismatchMessage ==
    (ProbeAnswered /\ probe.endpoint.code # ProbeExpected) =>
       /\ probe.result.status = "down"
       /\ probe.result.statusCode = [kind |-> "code", code |-> probe.endpoint.code]
       /\ probe.result.error =
             [kind |-> "expected", expected |-> ProbeExpected,
              actual |-> probe.endpoint.code]

\* C9: checkService returns a result for every probe; a transport failure
\* and an exceeded timeout give 'down' with the failure's message and no
\* status code, a failure that carries a response gives 'down' with the
\* response's code.
C9_FailureIsDown ==
    (probe # None /\ probe.result # None) =>
       LET e == probe.endpoint
           r == probe.result
           timeout == IF probe.service.timeout = 0 THEN DefaultTimeout
                      ELSE probe.service.timeout
       IN  /\ r.status \in {"up", "down"}
           /\ e.kind = "failure" =>
                 /\ r.status = "down" /\ r.statusCode = Null
                 /\ r.error = [kind |-> "transport", text |-> e.message]
           /\ (e.kind = "answer" /\ e.delay > timeout) =>
                 /\ r.status = "down" /\ r.statusCode = Null
                 /\ r.error = [kind |-> "timeout", ms |-> timeout]
           /\ (e.kind = "answer" /\ e.delay <= timeout /\ r.error # Null
                 /\ r.error.kind = "badStatus") =>
                 /\ r.status = "down"
                 /\ r.statusCode = [kind |-> "code", code |-> e.code]

\* C9 witness: a probe of a service with the default timeout was answered
\* too late and is reported down.
C9_Witness ==
    /\ probe # None /\ probe.result # None
    /\ probe.service.timeout = 0
    /\ probe.endpoint.kind = "answer" /\ probe.endpoint.delay > DefaultTimeout
    /\ probe.result.status = "down"

AllWithin(history, t) ==
    \A i \in 1..Len(history) : t - history[i].timestamp <= RetentionDays

\* C10: the history file a save writes, and the in-memory history assigned
\* from that save, hold no entry older than 90 days at the time of the save.
C10_SavedHistoryIsRecent ==
    [][\A s \in Slots :
          /\ (cyc[s].pc = "saving" /\ cyc'[s].pc = "written") =>
                AllWithin(historyFiles'[CurrentResult(s).name].entries, cyc[s].savedAt)
          /\ (cyc[s].pc = "written" /\ cyc'[s].pc # "written") =>
                AllWithin(serviceHistories'[CurrentResult(s).name].entries,
                          cyc[s].savedAt)]_vars

\* C10 witness: a save has written a file from which it dropped an entry
\* that the in-memory history still holds.
C10_Witness ==
    \E s \in Slots :
       /\ cyc[s].pc = "written"
       /\ historyFiles[CurrentResult(s).name].entries = cyc[s].trimmed
       /\ \E i \in 1..Len(serviceHistories[CurrentResult(s).name].entries) :
             ~IsRecent(serviceHistories[CurrentResult(s).name].entries[i],
                       cyc[s].savedAt)

RECURSIVE CountUp(_)
CountUp(entries) ==
    IF entries = <<>> THEN 0
    ELSE (IF Head(entries).status = "up" THEN 1 ELSE 0) + CountUp(Tail(entries))

\* C11: the uptime of a history is 100 * (entries with status 'up') /
\* (entries), and 100 for an empty or absent history; it lies between 0 and
\* 100, and the uptime of [up, up, down, up] is 75 (75.00 in the response).
C11_UptimeIsShareOfUp ==
    (probe # None /\ probe.uptime # None) =>
       LET h == probe.history
           u == probe.uptime
       IN  /\ u.den > 0
           /\ 0 <= u.num /\ u.num <= 100 * u.den
           /\ IF ~h.defined \/ h.entries = <<>>
              THEN u.num = 100 * u.den /\ probe.fixed = 10000
              ELSE u.num * Len(h.entries) = 100 * CountUp(h.entries) * u.den
           /\ (h.defined /\ Len(h.entries) = 4
                 /\ [i \in 1..4 |-> h.entries[i].status] = <<"up", "up", "down", "up">>) =>
                 (u.num = 75 * u.den /\ probe.fixed = 7500)

\* C11 witness: the uptime of [up, up, down, up] has been computed.
C11_Witness ==
    /\ probe # None /\ probe.uptime # None
    /\ probe.history.defined /\ Len(probe.history.entries) = 4
    /\ [i \in 1..4 |-> probe.history.entries[i].status] = <<"up", "up", "down", "up">>

C11_WitnessEmpty ==
    /\ probe # None /\ probe.uptime # None
    /\ probe.history.defined /\ probe.history.entries = <<>>

\* A step in which the history write of a cycle of the scheduler (the cycle
\* of initialize() or one of the timer) fails
WriteFailure(s) ==
    /\ cyc[s].pc = "saving" /\ cyc[s].origin \in {"initial", "timer"}
    /\ (alive /\ ~alive') \/ cyc'[s].pc = "idle"

\* C12: a history write that fails in a cycle, the cycle run at process start
\* included, leaves the recurring schedule running: the process lives on and
\* its timer is armed or is still going to be armed.
C12_ScheduleSurvivesWriteFailure ==
    [][\A s \in Slots :
          WriteFailure(s) =>
             /\ alive'
             /\ boot' = "armed" \/ \E r \in Slots : cyc'[r].origin = "initial"]_vars

\* The update loop of a cycle has results after the current one
Remaining(s) == cyc[s].idx < Len(cyc[s].list)

\* The update loop of a cycle has moved on to its next result
MovesOn(s) ==
    /\ cyc'[s].pc = "saving"
    /\ cyc'[s].idx = cyc[s].idx + 1
    /\ cyc'[s].results = cyc[s].results

\* C13: when the history write of one result fails while the cycle has
\* further results, the cycle is not halted: the process lives on and the
\* update loop moves on to the next result.
C13_WriteFailureDoesNotHaltCycle ==
    [][\A s \in Slots :
          (/\ cyc[s].pc = "saving" /\ Remaining(s)
           /\ (alive /\ ~alive') \/ cyc'[s].pc = "idle") =>
             (alive' /\ MovesOn(s))]_vars

\* C14: a dispatch never aborts the cycle, whatever happens in a channel: no
\* exception leaves sendNotifications, so the caller of the cycle gets its
\* results, and the update loop moves on to the remaining results.
C14_DispatchDoesNotAbortCycle ==
    [][\A s \in Slots :
          (cyc[s].pc = "notify" /\ (cyc'[s] # cyc[s] \/ alive' # alive)) =>
             /\ alive'
             /\ ~lastDispatch'.outcome.threw
             /\ Remaining(s) => MovesOn(s)]_vars

\* C15: decrypt never raises: whatever text it is given, malformed or
\* written under another key, it returns a text.
C15_DecryptNeverRaises ==
    /\ (probe # None /\ probe.plain # None) => ~probe.plain.thrown
    /\ (probe # None /\ probe.again # None) => ~probe.again.thrown

\* C16: with the key of one process, decrypt(encrypt(x)) = x for every
\* non-empty x without ':' and every iv encrypt draws.
C16_RoundTrip ==
    (/\ probe # None /\ probe.stage \in {"decrypted", "again"} /\ probe.cipher # None
     /\ probe.key = probe.readKey
     /\ probe.text # <<>> /\ ~Includes(probe.text, ":")) =>
       /\ ~probe.plain.thrown
       /\ probe.plain.text = probe.text
       /\ probe.cipher # probe.text

\* C16 witness: a two-character secret encrypted with a non-zero iv has been
\* decrypted under the same key.
C16_Witness ==
    /\ probe # None /\ probe.stage = "decrypted" /\ probe.cipher # None
    /\ probe.key = probe.readKey /\ probe.iv # 0 /\ probe.key # 0
    /\ Len(probe.text) = 2 /\ ~Includes(probe.text, ":")

\* C17: encrypt returns the empty text unchanged; decrypt returns a text
\* without ':' unchanged, under any key, and so does a second decrypt of what
\* it returned.
C17_PassThrough ==
    /\ (probe # None /\ probe.cipher # None /\ probe.text = <<>>) =>
          probe.cipher = <<>>
    /\ (probe # None /\ probe.plain # None /\ probe.cipher = None
           /\ ~Includes(probe.text, ":")) =>
          (~probe.plain.thrown /\ probe.plain.text = probe.text)
    /\ (probe # None /\ probe.again # None /\ ~Includes(probe.plain.text, ":")) =>
          (~probe.again.thrown /\ probe.again.text = probe.plain.text)

\* C17 witness: a non-empty text of hex digits without ':' was decrypted
\* twice, and the empty text was encrypted.
C17_Witness ==
    /\ probe # None /\ probe.again # None /\ probe.cipher = None
    /\ Len(probe.text) = MaxText /\ Over(probe.text, {"0", "1", "2", "3"})

C17_WitnessEmpty ==
    probe # None /\ probe.cipher # None /\ probe.text = <<>>

\* '<ivHex>:<cipherHex>'
CipherForm(text) ==
    /\ Len(text) >= 3
    /\ IsHex(text[1]) /\ text[2] = ":"
    /\ \A i \in 3..Len(text) : IsHex(text[i])

StoredSecretOk(stored, submitted) ==
    IF submitted = <<>> THEN stored = <<>>
    ELSE CipherForm(stored) /\ stored # submitted

C19_ReadMasksSecrets ==
    probe.kind = "read" =>
       LET d == probe.stored.data
           r == probe.response
       IN  /\ r.email.smtp.auth.pass = Masked(d.email.smtp.auth.pass)
           /\ r.sms.accountSid = Masked(d.sms.accountSid)
           /\ r.sms.authToken = Masked(d.sms.authToken)

C20_WitnessNotFound ==
    lastRemoval # None /\ ~lastRemoval.found

Unique(list) ==
    \A i, j \in 1..Len(list) : list[i].name = list[j].name => i = j

\* C21: the names of the durable service list are unique in every state,
\* whatever add and remove requests interleave, and a request that is
\* answered without starting a write (the add of an existing name, the
\* removal of an unknown one) leaves the list, the StatusRecords and the
\* histories as they were.
C21_NamesUnique ==
    /\ Unique(services)
    /\ [][/\ Unique(services')
          /\ (adminOps' # adminOps /\ addOp' = addOp /\ remOp' = remOp) =>
                UNCHANGED <<services, serviceStatuses, serviceHistories,
                            historyFiles>>]_vars

\* C21 witness: two adds of the same name were accepted concurrently, and
\* after both have written the list an add of that name has been rejected.
C21_Witness ==
    /\ \A a \in AddSlots : addOp[a].pc \in {"probing", "history"}
    /\ addOp[1].service.name = addOp[2].service.name
    /\ adminOps = 3
    /\ remOp.pc = "idle" /\ lastRemoval = None

\* C22: when an add completes while no removal has taken place, the
\* StatusRecord of the new service is the result of the add's probe, its
\* history in memory and on disk holds exactly the entry of that probe, and
\* the uptime in the response is 100.00 when the probe was 'up'; also when a
\* cycle runs during the add.
C22_AddLeavesOneObservation ==
    [][\A a \in AddSlots :
          (/\ addOp[a].pc = "history" /\ addOp'[a].pc = "idle"
           /\ remOp.pc = "idle" /\ lastRemoval = None) =>
             LET name == addOp[a].service.name
                 result == addOp[a].result
                 entry == [timestamp |-> result.lastChecked, status |-> result.status,
                           statusCode |-> result.statusCode, error |-> result.error]
             IN  /\ lastDecision'.result = result
                 /\ serviceStatuses'[name] = result
                 /\ serviceHistories'[name] = [defined |-> TRUE, entries |-> <<entry>>]
                 /\ historyFiles'[name] = [exists |-> TRUE, entries |-> <<entry>>]
                 /\ result.status = "up" => lastDecision'.uptime = 10000]_vars

\* The channels that are enabled and have their required fields in a
\* configuration
Complete(n) ==
    {ch \in Channels :
        CASE ch = "email" -> /\ n.email.enabled /\ n.email.smtp.host # ""
                             /\ n.email.smtp.auth.user # ""
                             /\ n.email.smtp.auth.pass # <<>>
          [] ch = "teams" -> n.teams.enabled /\ n.teams.webhookUrl # ""
          [] ch = "sms" -> /\ n.sms.enabled /\ n.sms.accountSid # <<>>
                           /\ n.sms.authToken # <<>>
          [] ch = "iphone" -> n.iphone.enabled /\ n.iphone.webhookUrl # ""}

\* C23: a dispatch sends only on channels that are enabled and completely
\* configured in the configuration stored at the time of the dispatch,
\* whatever updates of the configuration came before.
C23_SendsOnlyOnConfiguredChannels ==
    [][\A s \in Slots :
          (cyc[s].pc = "notify" /\ (cyc'[s] # cyc[s] \/ alive' # alive)) =>
             lastDispatch'.outcome.attempted
                \subseteq Complete(loadNotifications(notifFile, encryptionKey))]_vars

\* The three secrets of a stored configuration
Secrets(file) ==
    {file.data.email.smtp.auth.pass, file.data.sms.accountSid,
     file.data.sms.authToken}

\* C24: the key of a process changes only when a new process starts, with
\* its memory initialised anew, and the new process recovers none of the
\* secrets that the process before it had encrypted: decrypt throws or
\* returns another text than the original.
C24_KeyPerProcess ==
    [][encryptionKey' # encryptionKey =>
          /\ boot' = "init"
          /\ \A s \in Slots : cyc'[s].pc = "idle"
          /\ \A n \in Names : serviceStatuses'[n] = Absent
          /\ notifFile' = notifFile
          /\ \A secret \in Secrets(notifFile) :
                LET before == decrypt(encryptionKey, secret)
                    after == decrypt(encryptionKey', secret)
                IN  (Includes(secret, ":") /\ ~before.thrown) =>
                       (after.thrown \/ after.text # before.text)]_vars

\* C24 witness: a process that is not the first holds a configuration whose
\* secrets the process before it wrote and could read.
C24_Witness ==
    /\ encryptionKey > 0 /\ configUpdates > 0 /\ probe = None
    /\ notifFile.exists
    /\ \E key \in Keys :
          /\ key < encryptionKey
          /\ \A secret \in Secrets(notifFile) :
                Includes(secret, ":") /\ ~decrypt(key, secret).thrown

C26_NoLostListUpdate ==
    [][/\ \A a \in AddSlots :
             (/\ addOp[a].pc = "history" /\ addOp'[a].pc = "idle"
              /\ remOp.pc = "idle" \/ remOp.name # addOp[a].service.name
              /\ lastRemoval = None \/ lastRemoval.name # addOp[a].service.name) =>
                addOp[a].service.name \in ListedNames(services')
       /\ (/\ remOp.pc = "unlinking" /\ remOp'.pc = "idle"
           /\ \A a \in AddSlots :
                 addOp[a].pc = "idle" \/ addOp[a].service.name # remOp.name) =>
             remOp.name \notin ListedNames(services')]_vars

\* The update loop of cycle s turns to its next result in this step: the
\* StatusRecord of that result's service is read as it is now and the entry
\* of the result is appended to the in-memory history, while the StatusRecord
\* is not yet overwritten.
TurnsToNext(s) ==
    /\ cyc'[s].pc = "saving"
    /\ cyc'[s].idx = cyc[s].idx + 1 /\ cyc'[s].idx <= Len(cyc[s].list)
    /\ LET r == cyc'[s].results[cyc'[s].idx]
           h == serviceHistories'[r.name].entries
       IN  /\ r.name = cyc[s].list[cyc'[s].idx].name
           /\ cyc'[s].previousEntry = serviceStatuses'[r.name]
           /\ cyc'[s].previousStatus = StatusOfRecord(serviceStatuses'[r.name])
           /\ Len(h) >= 1
           /\ h[Len(h)] = [timestamp |-> r.lastChecked, status |-> r.status,
                           statusCode |-> r.statusCode, error |-> r.error]

\* C27: the update loop of a cycle handles one result at a time and, for
\* each result, in this order: the prior StatusRecord is read and the entry
\* appended; the trimmed history is written to the file; the StatusRecord is
\* overwritten and the transition evaluated; the dispatch runs; only then
\* does the loop turn to the next result.
C27_UpdateOrder ==
    [][\A s \in Slots :
          (cyc'[s] # cyc[s] /\ encryptionKey' = encryptionKey) =>
             LET c == cyc[s]
                 d == cyc'[s]
             IN  /\ c.pc = "idle" => d.pc \in {"idle", "probing"}
                 /\ c.pc = "probing" =>
                       \/ d.pc = "probing" /\ d.idx = 0
                       \/ d.pending = {} /\ c.idx = 0 /\ TurnsToNext(s)
                 /\ c.pc = "saving" =>
                       \/ /\ d.pc = "written" /\ d.idx = c.idx
                          /\ historyFiles'[c.results[c.idx].name].entries = c.trimmed
                          /\ serviceStatuses' = serviceStatuses
                          /\ lastDispatch' = lastDispatch
                       \/ d.pc = "idle"
                 /\ c.pc = "written" =>
                       /\ serviceStatuses'[c.results[c.idx].name] = c.results[c.idx]
                       /\ IF c.previousStatus # c.results[c.idx].status
                          THEN /\ d.pc = "notify" /\ d.idx = c.idx
                               /\ lastDispatch' = lastDispatch
                          ELSE \/ TurnsToNext(s)
                               \/ d.pc = "idle" /\ c.idx = Len(c.list)
                 /\ c.pc = "notify" =>
                       /\ lastDispatch'.name = c.results[c.idx].name
                       /\ lastDispatch'.previousStatus = c.previousStatus
                       /\ \/ TurnsToNext(s)
                          \/ d.pc = "idle" /\ c.idx = Len(c.list)
                          \/ d.pc = "idle" /\ lastDispatch'.outcome.threw
                 /\ (c.pc \notin {"idle", "probing"} /\ d.pc # "idle") =>
                       d.results = c.results /\ d.list = c.list]_vars

\* C27 witness: a cycle has turned to its second result after the dispatch
\* for its first one, in a process that has recorded results before.
C27_Witness ==
    \E s \in Slots :
       /\ cyc[s].pc = "saving" /\ cyc[s].idx = 2
       /\ cyc[s].previousEntry # Absent
       /\ lastDispatch # None /\ lastDispatch.name = cyc[s].list[1].name
       /\ lastDecision # None /\ lastDecision.name = cyc[s].list[1].name
       /\ lastDecision.dispatched

\* The results a cycle holds are those of its loaded list, position by
\* position, for every probe that has returned.
ResultsInListOrder(c) ==
    /\ Len(c.results) = Len(c.list)
    /\ \A i \in 1..Len(c.list) :
          i \notin c.pending =>
             c.results[i] # Null /\ c.results[i].name = c.list[i].name

\* C28: a cycle starts the probes of its whole loaded list together, changes
\* no StatusRecord, history, history file or notification record while a probe
\* of it is outstanding, and enters its update phase with exactly one result
\* per loaded service, in list order.
C28_ProbesBeforeUpdates ==
    [][\A s \in Slots :
          (cyc'[s] # cyc[s] /\ encryptionKey' = encryptionKey) =>
             LET c == cyc[s]
                 d == cyc'[s]
             IN  /\ (c.pc = "idle" /\ d.pc = "probing") =>
                       /\ d.list = services
                       /\ d.pending = 1..Len(d.list)
                       /\ d.idx = 0
                 /\ d.pc = "probing" =>
                       /\ d.pending # {}
                       /\ ResultsInListOrder(d)
                       /\ UNCHANGED <<serviceStatuses, serviceHistories,
                                      historyFiles, lastDispatch, lastDecision>>
                 /\ (c.pc = "probing" /\ d.pc # "probing") =>
                       /\ c.pending \in {{i} : i \in 1..Len(c.list)}
                       /\ d.pc = "saving" /\ d.idx = 1
                       /\ serviceStatuses' = serviceStatuses
                       /\ historyFiles' = historyFiles
                 /\ d.pc \in {"saving", "written", "notify"} =>
                       /\ d.pending = {}
                       /\ ResultsInListOrder(d)]_vars

\* C28 witness: a cycle over two services is in its update phase at its
\* second result, its two probes having returned different statuses.
C28_Witness ==
    \E s \in Slots :
       /\ cyc[s].pc = "saving" /\ cyc[s].idx = 2
       /\ Len(cyc[s].list) = 2
       /\ cyc[s].results[1].status # cyc[s].results[2].status
       /\ cyc[s].results[1].name = "A" /\ cyc[s].results[2].name = "B"

\* t is the tail of list
IsSuffix(t, list) ==
    /\ Len(t) <= Len(list)
    /\ SubSeq(list, Len(list) - Len(t) + 1, Len(list)) = t

InTimeOrder(list) ==
    \A i, j \in 1..Len(list) : i < j => list[i].timestamp <= list[j].timestamp

\* No cycle and no request on the service list is in progress
Quiescent ==
    /\ alive /\ \A s \in Slots : cyc[s].pc = "idle"
    /\ Adding = {} /\ remOp.pc = "idle"

\* C29: once every cycle and check-now request has completed (no history
\* write having failed), the observations of every listed service that are
\* within the retention window are, each once and in the order they were
\* made, the latest entries of the in-memory history and of the history file.
C29_HistoryKeepsEveryObservation ==
    (Quiescent /\ ~observed.writeFailed) =>
       \A name \in ListedNames(services) :
          LET want == TrimHistory(observed.entries[name], now)
              inMemory == IF serviceHistories[name].defined
                          THEN TrimHistory(serviceHistories[name].entries, now)
                          ELSE <<>>
              onDisk == IF historyFiles[name].exists
                        THEN TrimHistory(historyFiles[name].entries, now)
                        ELSE <<>>
          IN  /\ IsSuffix(want, inMemory) /\ InTimeOrder(inMemory)
              /\ IsSuffix(want, onDisk) /\ InTimeOrder(onDisk)

\* C30: a cycle that has started finishes its update phase, as long as the
\* process runs.
C30_CycleFinishes ==
    \A s \in Slots : (cyc[s].pc # "idle") ~> (cyc[s].pc = "idle" \/ ~alive)

\* C31: whenever no cycle and no request on the service list is in progress
\* (no history write having failed), the in-memory history of every listed
\* service that has a history file equals the contents of the file, and
\* every listed service whose in-memory history holds entries has a file.
C31_MemoryMatchesFile ==
    (Quiescent /\ ~observed.writeFailed) =>
       \A name \in ListedNames(services) :
          /\ historyFiles[name].exists =>
                /\ serviceHistories[name].defined
                /\ serviceHistories[name].entries = historyFiles[name].entries
          /\ (serviceHistories[name].defined /\ serviceHistories[name].entries # <<>>) =>
                historyFiles[name].exists

\* C32: whenever no cycle and no request on the service list is in progress
\* (no history write having failed), every listed service with a StatusRecord has
\* a non-empty in-memory history whose newest entry has the status and the
\* timestamp of the StatusRecord.
C32_StatusIsNewestEntry ==
    (Quiescent /\ ~observed.writeFailed) =>
       \A name \in ListedNames(services) :
          serviceStatuses[name] # Absent =>
             /\ serviceHistories[name].defined
             /\ serviceHistories[name].entries # <<>>
             /\ LET h == serviceHistories[name].entries
                IN  /\ h[Len(h)].status = serviceStatuses[name].status
                    /\ h[Len(h)].timestamp = serviceStatuses[name].lastChecked

\* C33: the configuration loaded for GET /api/notifications from an existing
\* file has the stored enabled flags and the stored fields that are not
\* secrets, for every channel.
C33_LoadKeepsChannels ==
    (probe.kind = "read" /\ probe.stored.exists) =>
       LET d == probe.stored.data
           r == probe.response
       IN  /\ r.teams = d.teams
           /\ r.iphone = d.iphone
           /\ r.email.enabled = d.email.enabled
           /\ r.email.smtp.host = d.email.smtp.host
           /\ r.email.smtp.auth.user = d.email.smtp.auth.user
           /\ r.sms.enabled = d.sms.enabled

=============================================================================
